---- MODULE Spec2Model ----
(***************************************************************************)
(* Model of Code/linearProgram.py: findBestPartition builds a mixed        *)
(* integer program (one 0/1 variable per candidate route, one continuous   *)
(* slack), hands it to the CBC solver through PuLP and returns the routes  *)
(* whose variable is 1 together with the flag "status is Optimal".         *)
(*                                                                         *)
(* Durations are whole hours.  The solver is modelled by its contract: if  *)
(* the program built is feasible it returns some minimiser with status     *)
(* Optimal, otherwise status Infeasible with unspecified variable values.  *)
(***************************************************************************)
EXTENDS Integers, Sequences, FiniteSets

\* ---------------------------------------------------------------- bounds
MaxRoutes == 3            \* longest candidate route list
MaxDuration == 12         \* largest duration fed to the cost function alone

\* ------------------------------------------------------------- inputs
StoreUniverse == {"S1", "S2"}
RouteValues == {<<"S1">>, <<"S2">>, <<"S1", "S2">>}
DurationValues == {2, 3, 6, 26}
\* the candidate routes an instance is drawn from: a route and its duration
Catalogue ==
  { <<(<<"S1">>), 3>>, <<(<<"S1">>), 26>>,
    <<(<<"S2">>), 3>>, <<(<<"S2">>), 26>>,
    <<(<<"S1", "S2">>), 2>>, <<(<<"S1", "S2">>), 6>>, <<(<<"S1", "S2">>), 26>> }
TruckValues == {1, 2, 60}

VARIABLES
  routes,        \* argument routes: list of routes, a route is a list of stores
  stores,        \* argument stores (no store listed twice)
  durations,     \* argument durations, durations[i] belongs to routes[i]
  maxTrucks,     \* argument maxTrucks
  pc,            \* position in findBestPartition
  routing_model, \* the LpProblem built so far
  xval,          \* possibleRoutes[i].value() after solve
  slackVal,      \* slackTime.value() after solve
  status,        \* LpStatus[routing_model.status]
  objective,     \* value(routing_model.objective) after solve
  routesChosen,  \* the list returned
  isOptimal,     \* the flag returned
  call,          \* 1 for the first invocation, 2 for a second one
  first          \* what the first invocation was given and returned

vars == <<routes, stores, durations, maxTrucks, pc, routing_model, xval,
          slackVal, status, objective, routesChosen, isOptimal, call, first>>

\* ------------------------------------------------------------ helpers
Max(a, b) == IF a >= b THEN a ELSE b

\* Python's max(0, y)
max0(y) == Max(0, y)

\* `store in route` for a list route
InRoute(store, route) == \E k \in DOMAIN route : route[k] = store

RECURSIVE SumOver(_, _)
\* sum of f[i] over the finite index set S
SumOver(f, S) ==
  IF S = {} THEN 0
  ELSE LET i == CHOOSE j \in S : TRUE IN f[i] + SumOver(f, S \ {i})

\* ------------------------------------------------------ the cost lambda
\* surcharge from the fifth hour instead of the fourth
cost_LateSurcharge(x) == 225 * x + 50 * max0(x - 5)

cost(x) == 225 * x + 50 * max0(x - 4)

\* weight of the slack in the objective
SlackWeight == 10000

\* right-hand side of the duration constraint
DurationBudget == 25

\* ------------------------------------------------- building the model
Indices(rs) == 1 .. Len(rs)

\* the duration priced at the base rate only
ObjectiveCoef_NoSurcharge(i) == 225 * durations[i]

\* coefficient of possibleRoutes[i] in the objective
ObjectiveCoef(i) == cost(durations[i])

\* the variables summed in the constraint Must_supply_<store>
CoverRoutes(store) == {i \in Indices(routes) : InRoute(store, routes[i])}

\* the LpProblem after all constraints are added
BuiltModel ==
  [ n           |-> Len(routes),
    objCoef     |-> [i \in Indices(routes) |-> ObjectiveCoef(i)],
    slackWeight |-> SlackWeight,
    truckCap    |-> maxTrucks,
    durCoef     |-> [i \in Indices(routes) |-> durations[i]],
    durBudget   |-> DurationBudget,
    cover       |-> [st \in stores |-> CoverRoutes(st)] ]

EmptyModel ==
  [ n |-> 0, objCoef |-> <<>>, slackWeight |-> 0, truckCap |-> 0,
    durCoef |-> <<>>, durBudget |-> 0, cover |-> <<>> ]

\* --------------------------------------------- the program that is solved
\* the fleet cap with its sense reversed
TruckConstraint_AtLeast(m, x) == SumOver(x, 1 .. m.n) >= m.truckCap

\* Maximum_number_of_trucks: lpSum(possibleRoutes) <= maxTrucks
TruckConstraint(m, x) == SumOver(x, 1 .. m.n) <= m.truckCap

\* lpSum(coef[i] * x[i]) over the n route variables
LinearSum(coef, x, n) == SumOver([i \in 1 .. n |-> coef[i] * x[i]], 1 .. n)

\* the duration constraint without its slack term
DurationConstraint_Hard(m, load, s) == load <= m.durBudget

\* Average_duration_constraint: lpSum(durations[i]*x[i]) - slackTime <= 25,
\* load being the value of lpSum(durations[i]*x[i])
DurationConstraint(m, load, s) == load - s <= m.durBudget

\* a store visited at most once instead of exactly once
CoverConstraint_AtMost(m, x, st) == SumOver(x, m.cover[st]) <= 1

\* Must_supply_<store>: lpSum(x[i] for the routes holding store) == 1
CoverConstraint(m, x, st) == SumOver(x, m.cover[st]) = 1

\* all constraints that involve the route variables only
RouteConstraints(m, x) ==
  /\ TruckConstraint(m, x)
  /\ \A st \in DOMAIN m.cover : CoverConstraint(m, x, st)

\* the objective without the slack term
ObjValue_NoPenalty(m, routeCost, s) == routeCost

\* the objective: lpSum(cost(durations[i]) * x[i]) + slackTime*10000,
\* routeCost being the value of lpSum(cost(durations[i]) * x[i])
ObjValue(m, routeCost, s) == routeCost + m.slackWeight * s

\* Variable domains: x[i] integer in 0..1, slackTime >= 0.  With whole
\* durations every vertex of the program has a whole slack; slack values
\* above the range below are feasible too but never needed.
SlackRange(m) ==
  0 .. (max0(SumOver(m.durCoef, 1 .. m.n) - m.durBudget) + 1)

\* the assignments meeting every constraint, each with its objective value
FeasibleSet(m) ==
  UNION { LET load == LinearSum(m.durCoef, x, m.n)
              routeCost == LinearSum(m.objCoef, x, m.n)
          IN  {[x |-> x, s |-> s, obj |-> ObjValue(m, routeCost, s)] :
                 s \in {t \in SlackRange(m) : DurationConstraint(m, load, t)}} :
          x \in {y \in [1 .. m.n -> {0, 1}] : RouteConstraints(m, y)} }

\* the least objective value over a non-empty feasible set F
BestValue(F) ==
  LET vals == {a.obj : a \in F}
  IN  CHOOSE v \in vals : \A w \in vals : v <= w

\* the points of a non-empty feasible set F with the least objective value
Minimisers(F) ==
  LET best == BestValue(F)
  IN  {a \in F : a.obj = best}

\* ------------------------------------------------------ result extraction
RECURSIVE ChosenFrom_Unselected(_, _, _)
\* the loop keeping the routes whose variable is not 1
ChosenFrom_Unselected(i, x, acc) ==
  IF i > Len(routes) THEN acc
  ELSE ChosenFrom_Unselected(i + 1, x,
                             IF x[i] # 1 THEN Append(acc, routes[i]) ELSE acc)

RECURSIVE ChosenFrom_Prepend(_, _, _)
\* the loop inserting at the front of the list
ChosenFrom_Prepend(i, x, acc) ==
  IF i > Len(routes) THEN acc
  ELSE ChosenFrom_Prepend(i + 1, x,
                          IF x[i] = 1 THEN <<routes[i]>> \o acc ELSE acc)

\* the flag true for every status the solver ends with
StatusFlag_Solved(st) == st # "Not Solved"

\* line 94: LpStatus[routing_model.status] == "Optimal"
StatusFlag(st) == st = "Optimal"

RECURSIVE ChosenFrom(_, _, _)
\* the loop `for i in range(len(routes))` from index i on, appending to acc
ChosenFrom(i, x, acc) ==
  IF i > Len(routes) THEN acc
  ELSE ChosenFrom(i + 1, x, IF x[i] = 1 THEN Append(acc, routes[i]) ELSE acc)

\* ---------------------------------------------------------------- state
NoFirst == [isOptimal |-> FALSE, objective |-> 0, maxTrucks |-> 0]

Fresh ==
  /\ pc = "start"
  /\ routing_model = EmptyModel
  /\ xval = <<>>
  /\ slackVal = 0
  /\ status = "Not Solved"
  /\ objective = 0
  /\ routesChosen = <<>>
  /\ isOptimal = FALSE

Instances ==
  /\ routes \in UNION {[1 .. n -> RouteValues] : n \in 0 .. MaxRoutes}
  /\ durations \in {d \in [1 .. Len(routes) -> DurationValues] :
                      \A i \in 1 .. Len(routes) : <<routes[i], d[i]>> \in Catalogue}
  /\ stores \in SUBSET StoreUniverse
  /\ maxTrucks \in TruckValues

Init ==
  /\ Instances
  /\ Fresh
  /\ call = 1
  /\ first = NoFirst

\* lines 46-78: variables, objective and constraints
Build ==
  /\ pc = "start"
  /\ routing_model' = BuiltModel
  /\ pc' = "built"
  /\ UNCHANGED <<routes, stores, durations, maxTrucks, xval, slackVal, status,
                 objective, routesChosen, isOptimal, call, first>>

\* line 82: routing_model.solve(PULP_CBC_CMD(...)).  An infeasible program
\* leaves the variables at values the solver does not specify; xval[i] = 1
\* then stands for value() == 1.0 and 0 for any other value.
Solve ==
  /\ pc = "built"
  /\ LET F == FeasibleSet(routing_model) IN
     IF F # {}
       THEN /\ status' = "Optimal"
            /\ \E a \in Minimisers(F) :
                 /\ xval' = a.x
                 /\ slackVal' = a.s
                 /\ objective' = a.obj
       ELSE /\ status' = "Infeasible"
            /\ xval' \in [1 .. routing_model.n -> {0, 1}]
            /\ slackVal' = 0
            /\ objective' = ObjValue(routing_model,
                                     LinearSum(routing_model.objCoef, xval',
                                               routing_model.n),
                                     slackVal')
  /\ pc' = "solved"
  /\ UNCHANGED <<routes, stores, durations, maxTrucks, routing_model,
                 routesChosen, isOptimal, call, first>>

\* lines 84-94: collect the routes whose variable is 1 and return
Extract ==
  /\ pc = "solved"
  /\ routesChosen' = ChosenFrom(1, xval, <<>>)
  /\ isOptimal' = StatusFlag(status)
  /\ pc' = "done"
  /\ UNCHANGED <<routes, stores, durations, maxTrucks, routing_model, xval,
                 slackVal, status, objective, call, first>>

Next == Build \/ Solve \/ Extract

Spec == Init /\ [][Next]_vars

\* ------------------------------------------- a second call by the caller
Reset ==
  /\ pc' = "start"
  /\ routing_model' = EmptyModel
  /\ xval' = <<>>
  /\ slackVal' = 0
  /\ status' = "Not Solved"
  /\ objective' = 0
  /\ routesChosen' = <<>>
  /\ isOptimal' = FALSE

Returned == [isOptimal |-> isOptimal, objective |-> objective, maxTrucks |-> maxTrucks]

\* list s without its element at index i
RemoveAt(s, i) == [j \in 1 .. (Len(s) - 1) |-> IF j < i THEN s[j] ELSE s[j + 1]]

Range(s) == {s[j] : j \in DOMAIN s}

\* the same instance is solved again with at least as many trucks
CallMoreTrucks ==
  /\ pc = "done"
  /\ call = 1
  /\ first' = Returned
  /\ call' = 2
  /\ maxTrucks' \in {m \in TruckValues : m >= maxTrucks}
  /\ Reset
  /\ UNCHANGED <<routes, stores, durations>>

\* the instance is solved again without a route that was not returned
CallWithoutRoute ==
  /\ pc = "done"
  /\ call = 1
  /\ first' = Returned
  /\ call' = 2
  /\ \E i \in Indices(routes) :
       /\ routes[i] \notin Range(routesChosen)
       /\ routes' = RemoveAt(routes, i)
       /\ durations' = RemoveAt(durations, i)
  /\ Reset
  /\ UNCHANGED <<stores, maxTrucks>>

NextTrucks == Build \/ Solve \/ Extract \/ CallMoreTrucks

SpecTrucks == Init /\ [][NextTrucks]_vars

NextRemove == Build \/ Solve \/ Extract \/ CallWithoutRoute

SpecRemove == Init /\ [][NextRemove]_vars

\* --------------------------------- the cost function on its own inputs
InitCost ==
  /\ routes = << <<"S1">>, <<"S2">> >>
  /\ durations \in [1 .. 2 -> 0 .. MaxDuration]
  /\ stores = {}
  /\ maxTrucks = 60
  /\ Fresh
  /\ call = 1
  /\ first = NoFirst

NextCost == Build

SpecCost == InitCost /\ [][NextCost]_vars

\* ======================================================================
\* Properties.  They are stated over the arguments of the call, not over
\* the LpProblem that Build makes of them.
\* ======================================================================
Selections == [Indices(routes) -> {0, 1}]

\* number of routes a selection uses
Used(x) == Cardinality({i \in Indices(routes) : x[i] = 1})

\* every required store lies on exactly one selected route
CoversOnce(x) ==
  \A st \in stores :
    Cardinality({i \in Indices(routes) : x[i] = 1 /\ InRoute(st, routes[i])}) = 1

TotalDuration(x) ==
  SumOver([i \in Indices(routes) |-> IF x[i] = 1 THEN durations[i] ELSE 0],
          Indices(routes))

\* 225 per hour, 275 per hour beyond the fourth
PiecewiseCost(d) == IF d <= 4 THEN 225 * d ELSE 275 * d - 200

TotalCost(x) ==
  SumOver([i \in Indices(routes) |-> IF x[i] = 1 THEN PiecewiseCost(durations[i]) ELSE 0],
          Indices(routes))

Excess(x) == IF TotalDuration(x) > 25 THEN TotalDuration(x) - 25 ELSE 0

\* a selection within the fleet cap that covers every required store once
Partition(x) == Used(x) <= maxTrucks /\ CoversOnce(x)

StatedFeasible(x, s) == Partition(x) /\ s >= 0 /\ TotalDuration(x) - s <= 25

StatedObjective(x, s) == TotalCost(x) + 10000 * s

AllOnes == [i \in Indices(routes) |-> 1]

SlackCandidates == 0 .. (TotalDuration(AllOnes) + 1)

Reachable(st) == \E i \in Indices(routes) : InRoute(st, routes[i])

ScenarioA ==
  /\ routes = << <<"S1", "S2">> >>
  /\ durations = <<2>>
  /\ stores = {"S1", "S2"}
  /\ maxTrucks = 60

ScenarioB ==
  /\ routes = << <<"S1">>, <<"S2">> >>
  /\ stores = {"S1", "S2"}
  /\ maxTrucks = 1

ScenarioD ==
  /\ routes = << <<"S1", "S2">>, <<"S1">>, <<"S2">> >>
  /\ durations = <<6, 3, 3>>
  /\ stores = {"S1", "S2"}
  /\ maxTrucks >= 2

\* C1: when the call returns isOptimal = true, every required store lies on
\* exactly one of the returned routes.
C1_ExactCover ==
  (pc = "done" /\ isOptimal) =>
    \A st \in stores :
      Cardinality({j \in DOMAIN routesChosen : InRoute(st, routesChosen[j])}) = 1

C1_Witness ==
  /\ pc = "done" /\ isOptimal
  /\ stores = {"S1", "S2"}
  /\ Len(routes) = 3
  /\ Len(routesChosen) = 2

\* C2: when the call returns isOptimal = true, the selection returned is
\* feasible for fleet cap, duration budget and exact cover, and no feasible
\* selection and slack has a lower value of sum cost*x + 10000*s; the
\* single route over S1 and S2 of duration 2 is returned with objective 450.
C2_Minimum ==
  pc = "done" =>
    /\ isOptimal =>
         /\ StatedFeasible(xval, slackVal)
         /\ objective = StatedObjective(xval, slackVal)
         /\ \A x \in {y \in Selections : Partition(y)} :
              LET d == TotalDuration(x)
                  c == TotalCost(x)
              IN  \A s \in SlackCandidates :
                    (d - s <= 25) => objective <= c + 10000 * s
    /\ ScenarioA => (isOptimal /\ routesChosen = routes /\ objective = 450)

C2_Witness ==
  /\ pc = "done" /\ isOptimal
  /\ \E x \in Selections : StatedFeasible(x, Excess(x)) /\ objective < StatedObjective(x, Excess(x))

\* C3 as stated: a required store on no candidate route stops the call
\* before a model is built or solved.
C3_FailsFast ==
  (\E st \in stores : ~Reachable(st)) => pc \notin {"solved", "done"}

\* C4: every required store is reachable but no selection within the fleet
\* cap covers every store once: the call runs to its return and the flag
\* returned is false.
C4_InfeasibleAsData ==
  ((\A st \in stores : Reachable(st)) /\ ~(\E x \in Selections : Partition(x))) =>
    /\ pc = "start" => ENABLED Build
    /\ pc = "built" => ENABLED Solve
    /\ pc = "solved" => (ENABLED Extract /\ status # "Optimal")
    /\ pc = "done" => ~isOptimal

C4_Witness == pc = "done" /\ ScenarioB /\ ~isOptimal

\* what the cost function is said to be, with its value at 5 as a parameter
CostContract(atFive) ==
  pc = "built" =>
    /\ \A i \in Indices(routes) :
         /\ routing_model.objCoef[i] = PiecewiseCost(durations[i])
         /\ durations[i] = 0 => routing_model.objCoef[i] = 0
         /\ durations[i] = 4 => routing_model.objCoef[i] = 900
         /\ durations[i] = 5 => routing_model.objCoef[i] = atFive
    /\ \A i, j \in Indices(routes) :
         durations[i] <= durations[j] =>
           routing_model.objCoef[i] <= routing_model.objCoef[j]

\* C5 as stated: the objective coefficient of a route of duration d is
\* 225*d + 50*max(0, d-4), non-decreasing, with no jump at 4, 0 at 0,
\* 900 at 4 and 1225 at 5.
C5_CostAsStated == CostContract(1225)

\* C5: the objective coefficient of a route of duration d is
\* 225*d + 50*max(0, d-4): 225 per hour up to 4 and 275 per hour beyond
\* with no jump at 4, non-decreasing, 0 at 0, 900 at 4 and 1175 at 5.
C5_Cost == CostContract(1175)

C5_Witness == pc = "built" /\ durations = <<4, 5>>

\* C6: a second call with the same routes, stores and durations and at
\* least as many trucks as an optimal first call is optimal too, with an
\* objective value no higher.
C6_MoreTrucks ==
  (pc = "done" /\ call = 2 /\ first.isOptimal) =>
    (isOptimal /\ objective <= first.objective)

C6_Witness ==
  /\ pc = "done" /\ call = 2 /\ first.isOptimal
  /\ first.maxTrucks < maxTrucks
  /\ objective < first.objective

\* C7: a second call without one route the optimal first call did not
\* return is optimal too, with the same objective value.
C7_RemoveUnused ==
  (pc = "done" /\ call = 2 /\ first.isOptimal) =>
    (isOptimal /\ objective = first.objective)

C7_Witness ==
  /\ pc = "done" /\ call = 2 /\ first.isOptimal
  /\ Len(routes) = 2 /\ Len(routesChosen) = 2

\* the j-th smallest index whose variable is 1
NthSelected(j) ==
  CHOOSE i \in Indices(routes) :
    xval[i] = 1 /\ Cardinality({k \in 1 .. i : xval[k] = 1}) = j

\* C8: the list returned holds exactly the routes whose variable is 1, in
\* the order of the candidate list, whatever the status.
C8_Subsequence ==
  pc = "done" =>
    /\ Len(routesChosen) = Cardinality({i \in Indices(routes) : xval[i] = 1})
    /\ \A j \in DOMAIN routesChosen : routesChosen[j] = routes[NthSelected(j)]

C8_Witness ==
  /\ pc = "done" /\ ~isOptimal
  /\ xval = <<1, 0, 1>>
  /\ routes[1] # routes[3]

\* C9: if some selection within the fleet cap covers every required store
\* once, the flag returned is true, however long the selections are.
C9_BudgetNeverInfeasible ==
  (pc = "done" /\ \E x \in Selections : Partition(x)) => isOptimal

C9_Witness ==
  /\ pc = "done" /\ isOptimal
  /\ \A x \in Selections : Partition(x) => TotalDuration(x) > 26

\* C10: in an optimal result the slack is max(0, duration of the routes
\* chosen - 25) and the objective is their cost plus 10000 times that; of
\* one route of duration 6 over both stores and two routes of duration 3
\* over one store each, the two routes (1350 against 1450) are returned.
C10_Slack ==
  pc = "done" =>
    /\ isOptimal =>
         /\ slackVal = Excess(xval)
         /\ objective = TotalCost(xval) + 10000 * Excess(xval)
    /\ ScenarioD =>
         (isOptimal /\ routesChosen = << <<"S1">>, <<"S2">> >> /\ objective = 1350)

C10_Witness ==
  /\ pc = "done" /\ isOptimal
  /\ slackVal > 0
  /\ \E x \in Selections : Partition(x) /\ Excess(x) > slackVal

====
